---- MODULE Spec2Model ----
(***************************************************************************)
(* Model of the demand-pattern classifier                                  *)
(* (project-002-supply-chain-analytics/src/analytics/demand_classifier.py) *)
(* and of the inventory segmenter                                          *)
(* (project-002-supply-chain-analytics/src/clustering/kmeans_segmenter.py).*)
(*                                                                         *)
(* Numbers.  A float64 is modelled as a record [k, n, d, r]:               *)
(*   k = "fin": the exact value n/d (r = FALSE) or sqrt(n/d) (r = TRUE),   *)
(*   k = "inf": +infinity,  k = "nan": not-a-number.                       *)
(* Arithmetic is exact; IEEE-754 special values follow the rules pandas    *)
(* and numpy apply (x/0 = inf for x > 0, 0/0 = nan, nan propagates, every  *)
(* comparison with nan is false).  Rounding error is not modelled.         *)
(***************************************************************************)
EXTENDS Integers, Sequences, FiniteSets, TLC

VARIABLES
    df,        \* classifier: the input table handed to calculate_features
    frame,     \* classifier: the statistics table (calculate_features' return value)
    raised,    \* classifier: the exception the last call raised, or "none"
    pc,        \* classifier: which call returned last
    n_clusters,     \* segmenter: self.n_clusters
    scaler,         \* segmenter: self.scaler (StandardScaler)
    kmeans,         \* segmenter: self.kmeans (None or a KMeans)
    feature_names,  \* segmenter: self.feature_names
    features,       \* caller: the feature table it holds
    clusters,       \* caller: the cluster assignment it holds
    call,           \* the last call on the segmenter and how it ended
    fit_completed,  \* history: some fit call has returned normally
    prepared        \* history: how the last two prepare_features calls ended

classifierVars == <<df, frame, raised, pc>>
segmenterVars == <<n_clusters, scaler, kmeans, feature_names>>
callerVars == <<features, clusters, call, fit_completed, prepared>>
vars == <<df, frame, raised, pc, n_clusters, scaler, kmeans, feature_names,
          features, clusters, call, fit_completed, prepared>>

----------------------------------------------------------------------------
(* Exact arithmetic with the IEEE special values *)

RECURSIVE GCD(_, _)
GCD(a, b) == IF b = 0 THEN a ELSE GCD(b, a % b)

Abs(x) == IF x < 0 THEN -x ELSE x

\* the rational n/d (d # 0) in lowest terms with a positive denominator
Fin(n, d) ==
    LET g == GCD(Abs(n), Abs(d))
        s == IF d < 0 THEN -1 ELSE 1
    IN  [k |-> "fin", n |-> (s * n) \div g, d |-> (s * d) \div g, r |-> FALSE]

\* sqrt(n/d), n/d >= 0; a perfect zero stays the rational 0
Root(n, d) ==
    IF n = 0 THEN Fin(0, 1) ELSE [Fin(n, d) EXCEPT !.r = TRUE]

NaN == [k |-> "nan", n |-> 0, d |-> 1, r |-> FALSE]
PosInf == [k |-> "inf", n |-> 1, d |-> 1, r |-> FALSE]
Zero == Fin(0, 1)

IsNaN(x) == x.k = "nan"
IsFinite(x) == x.k = "fin"

\* a / b for rationals and for sqrt(q) / (positive rational)
FDiv(a, b) ==
    CASE IsNaN(a) \/ IsNaN(b) -> NaN
      [] a.k = "inf" /\ b.k = "inf" -> NaN
      [] a.k = "inf" /\ b.k = "fin" /\ b.n >= 0 -> PosInf
      [] a.k = "fin" /\ b.k = "inf" -> Zero
      [] a.k = "fin" /\ b.k = "fin" /\ b.n = 0 /\ a.n = 0 -> NaN
      [] a.k = "fin" /\ b.k = "fin" /\ b.n = 0 /\ a.n > 0 -> PosInf
      [] a.k = "fin" /\ b.k = "fin" /\ b.n # 0 /\ ~a.r /\ ~b.r ->
            Fin(a.n * b.d, a.d * b.n)
      [] a.k = "fin" /\ b.k = "fin" /\ b.n > 0 /\ a.r /\ ~b.r ->
            Root(a.n * b.d * b.d, a.d * b.n * b.n)

\* a ** 2
FSquare(a) ==
    CASE IsNaN(a) -> NaN
      [] a.k = "inf" -> PosInf
      [] a.k = "fin" /\ a.r -> Fin(a.n, a.d)
      [] a.k = "fin" /\ ~a.r -> Fin(a.n * a.n, a.d * a.d)

\* a < b; false whenever either side is nan
FLt(a, b) ==
    CASE IsNaN(a) \/ IsNaN(b) -> FALSE
      [] a.k = "inf" -> FALSE
      [] a.k = "fin" /\ b.k = "inf" -> TRUE
      [] a.k = "fin" /\ b.k = "fin" /\ ~a.r /\ ~b.r -> a.n * b.d < b.n * a.d
      [] a.k = "fin" /\ b.k = "fin" /\ a.r /\ ~b.r ->
            b.n > 0 /\ a.n * b.d * b.d < b.n * b.n * a.d
      [] a.k = "fin" /\ b.k = "fin" /\ ~a.r /\ b.r ->
            a.n < 0 \/ a.n * a.n * b.d < b.n * a.d * a.d

FGt(a, b) == FLt(b, a)

\* pandas fillna(0)
FillNa0(x) == IF IsNaN(x) THEN Zero ELSE x

SeqSum(s) ==
    LET F[i \in 0..Len(s)] == IF i = 0 THEN 0 ELSE F[i - 1] + s[i]
    IN  F[Len(s)]

SeqSumSq(s) ==
    LET F[i \in 0..Len(s)] == IF i = 0 THEN 0 ELSE F[i - 1] + s[i] * s[i]
    IN  F[Len(s)]

\* pandas 'mean' of a group: nan for no values
PdMean(s) == IF Len(s) = 0 THEN NaN ELSE Fin(SeqSum(s), Len(s))

\* pandas 'std' of a group (sample standard deviation, ddof = 1): nan for fewer
\* than two values
PdStd(s) ==
    IF Len(s) < 2 THEN NaN
    ELSE Root(Len(s) * SeqSumSq(s) - SeqSum(s) * SeqSum(s), Len(s) * (Len(s) - 1))

----------------------------------------------------------------------------
(* demand_classifier.py: DemandClassifier *)

\* bounds of the classifier's inputs
MaxRows == 3
MaxSales == 3
StoreIds == {1}
ItemIds == {1, 2}

RequiredColumns == {"date", "store_id", "item_id", "total_sales"}

\* a row of the daily sales table; rows are in date order
RowValues == [store_id : StoreIds, item_id : ItemIds, total_sales : 0..MaxSales]

BoundedSeq(S, n) == UNION {[1..m -> S] : m \in 0..n}

\* the tables load_data can return: a required column may be absent
Tables ==
    {[columns |-> c, rows |-> rs] :
        c \in {RequiredColumns} \cup {RequiredColumns \ {x} : x \in RequiredColumns},
        rs \in BoundedSeq(RowValues, MaxRows)}

NoTable == [columns |-> {}, rows |-> <<>>]

\* the groups of df.groupby(['store_id', 'item_id']), in sorted key order
KeyLess(a, b) == a[1] < b[1] \/ (a[1] = b[1] /\ a[2] < b[2])
GroupKeys(rows) == {<<rows[j].store_id, rows[j].item_id>> : j \in 1..Len(rows)}

RECURSIVE SortedKeys(_)
SortedKeys(ks) ==
    IF ks = {} THEN <<>>
    ELSE LET m == CHOOSE x \in ks : \A y \in ks \ {x} : KeyLess(x, y)
         IN  <<m>> \o SortedKeys(ks \ {m})

\* the total_sales of one group, in date order
GroupSales(rows, key) ==
    LET hit(r) == r.store_id = key[1] /\ r.item_id = key[2]
        sel == SelectSeq(rows, hit)
    IN  [j \in 1..Len(sel) |-> sel[j].total_sales]

Positive(x) == x > 0

\* thresholds of get_category
ADI_CUTOFF == Fin(132, 100)
CV2_CUTOFF == Fin(49, 100)

\* stats['ADI'] = stats['num_observations'] / stats['non_zero_obs']
ADIOf(num_observations, non_zero_obs) ==
    FDiv(Fin(num_observations, 1), Fin(non_zero_obs, 1))

\* stats['CV2'] = stats['CV'] ** 2, then fillna(0)
CV2OfUnfilled(cv) == FSquare(cv)
CV2Of(cv) == FillNa0(FSquare(cv))

\* one row of the statistics table
StatsRow(rows, key) ==
    LET sales == GroupSales(rows, key)
        nz == SelectSeq(sales, Positive)
        \* the left merge leaves nan where the group has no non-zero row
        nz_mean == FillNa0(PdMean(nz))
        nz_std == FillNa0(PdStd(nz))
        cv == FDiv(nz_std, nz_mean)
    IN  [store_id |-> key[1], item_id |-> key[2],
         total_demand |-> SeqSum(sales),
         num_observations |-> Len(sales),
         non_zero_obs |-> Len(nz),
         ADI |-> ADIOf(Len(sales), Len(nz)),
         nz_mean |-> nz_mean, nz_std |-> nz_std,
         CV |-> cv, CV2 |-> CV2Of(cv)]

\* the table calculate_features returns: one row per group, in key order
StatsTable(rows) ==
    LET ks == SortedKeys(GroupKeys(rows))
    IN  [j \in 1..Len(ks) |-> StatsRow(rows, ks[j])]

\* df[['date', 'store_id', 'item_id', 'total_sales']] raises KeyError when a
\* column is absent; nothing else in calculate_features raises
CalculateFeatures ==
    /\ pc = "loaded"
    /\ IF RequiredColumns \subseteq df.columns
       THEN /\ frame' = StatsTable(df.rows)
            /\ raised' = "none"
            /\ pc' = "features"
       ELSE /\ raised' = "KeyError"
            /\ pc' = "failed"
            /\ UNCHANGED frame
    /\ UNCHANGED df
    /\ UNCHANGED <<segmenterVars, callerVars>>

get_category_le(adi, cv2) ==
    IF ~FGt(adi, ADI_CUTOFF)
    THEN IF FLt(cv2, CV2_CUTOFF) THEN "Smooth" ELSE "Erratic"
    ELSE IF FLt(cv2, CV2_CUTOFF) THEN "Intermittent" ELSE "Lumpy"

get_category(adi, cv2) ==
    IF FLt(adi, ADI_CUTOFF)
    THEN IF FLt(cv2, CV2_CUTOFF) THEN "Smooth" ELSE "Erratic"
    ELSE IF FLt(cv2, CV2_CUTOFF) THEN "Intermittent" ELSE "Lumpy"

\* df['demand_pattern'] = df.apply(get_category, axis=1)
WithPattern(row) ==
    [f \in DOMAIN row \cup {"demand_pattern"} |->
        IF f = "demand_pattern" THEN get_category(row.ADI, row.CV2) ELSE row[f]]

ClassifyPatterns ==
    /\ pc = "features"
    /\ frame' = [j \in 1..Len(frame) |-> WithPattern(frame[j])]
    /\ pc' = "classified"
    /\ UNCHANGED <<df, raised>>
    /\ UNCHANGED <<segmenterVars, callerVars>>

----------------------------------------------------------------------------
(* kmeans_segmenter.py: InventorySegmentation *)

FAdd(a, b) ==
    CASE IsNaN(a) \/ IsNaN(b) -> NaN
      [] a.k = "fin" /\ b.k = "fin" /\ ~a.r /\ ~b.r -> Fin(a.n * b.d + b.n * a.d, a.d * b.d)

FSub(a, b) ==
    CASE IsNaN(a) \/ IsNaN(b) -> NaN
      [] a.k = "fin" /\ b.k = "fin" /\ ~a.r /\ ~b.r -> Fin(a.n * b.d - b.n * a.d, a.d * b.d)

FMul(a, b) ==
    CASE IsNaN(a) \/ IsNaN(b) -> NaN
      [] a.k = "fin" /\ b.k = "fin" /\ ~a.r /\ ~b.r -> Fin(a.n * b.n, a.d * b.d)

FSum(s) ==
    LET F[i \in 0..Len(s)] == IF i = 0 THEN Zero ELSE FAdd(F[i - 1], s[i])
    IN  F[Len(s)]

\* bounds of the segmenter's inputs.  A feature row holds the two columns the
\* labels read; the scaler, KMeans and the profile treat the other four columns
\* (seasonality_strength, trend_slope, stockout_frequency, supplier_reliability)
\* the same way, column by column.
MaxEntities == 3
ClusterCounts == {2, 3}
RevenueGrid == {Fin(0, 1), Fin(2, 1)}
CVGrid == {Fin(0, 1), Fin(1, 1)}
FeatureColSeq == <<"revenue_contribution", "demand_cv">>
FeatureCols == {FeatureColSeq[j] : j \in DOMAIN FeatureColSeq}
FeatureRows == [revenue_contribution : RevenueGrid, demand_cv : CVGrid]
Batches == BoundedSeq(FeatureRows, MaxEntities)
Assignments(n, k) == [1..n -> 0..(k - 1)]

Column(X, c) == [i \in 1..Len(X) |-> X[i][c]]

\* StandardScaler: mean_ and var_ per column (population variance); a constant
\* column is scaled by 1
\* the attribute of a scaler that has none
NoAttr == [revenue_contribution |-> NaN, demand_cv |-> NaN]
UnfittedScaler == [fitted |-> FALSE, mean_ |-> NoAttr, var_ |-> NoAttr]

ColMean(X, c) == FDiv(FSum(Column(X, c)), Fin(Len(X), 1))

ColVar(X, c) ==
    LET m == ColMean(X, c)
        dev == [i \in 1..Len(X) |-> FSquare(FSub(X[i][c], m))]
    IN  FDiv(FSum(dev), Fin(Len(X), 1))

FittedScaler(X) ==
    [fitted |-> TRUE,
     mean_ |-> [revenue_contribution |-> ColMean(X, "revenue_contribution"),
                demand_cv |-> ColMean(X, "demand_cv")],
     var_ |-> [revenue_contribution |-> ColVar(X, "revenue_contribution"),
               demand_cv |-> ColVar(X, "demand_cv")]]

\* scale_ ** 2
ScaleSq(sc, c) == IF sc.var_[c] = Zero THEN Fin(1, 1) ELSE sc.var_[c]

\* Squared Euclidean distance, in the scaled space z = (x - mean_) / scale_, of
\* a row x and a centre c.  Centres are kept in the rows' own coordinates: the
\* scaling is affine and invertible, and a usable KMeans always belongs to the
\* scaler of the same fit call.
Dist2(x, c, sc) ==
    FSum([j \in DOMAIN FeatureColSeq |->
            FDiv(FSquare(FSub(x[FeatureColSeq[j]], c[FeatureColSeq[j]])),
                 ScaleSq(sc, FeatureColSeq[j]))])

\* KMeans.predict for one row: the nearest centre, the lowest index on a tie.
\* centres is a sequence; cluster id c is centres[c + 1].
Nearest(x, centres, sc) ==
    LET d(c) == Dist2(x, centres[c + 1], sc)
        ids == 0..(Len(centres) - 1)
    IN  CHOOSE c \in ids :
            /\ \A o \in ids : ~FLt(d(o), d(c))
            /\ \A o \in ids : o < c => FLt(d(c), d(o))

NearestAll(X, centres, sc) == [i \in 1..Len(X) |-> Nearest(X[i], centres, sc)]

Members(X, L, c) ==
    LET idx == {i \in 1..Len(X) : L[i] = c}
        RECURSIVE Pick(_)
        Pick(S) == IF S = {} THEN <<>>
                   ELSE LET m == CHOOSE x \in S : \A y \in S : x <= y
                        IN  <<X[m]>> \o Pick(S \ {m})
    IN  Pick(idx)

Centroid(rows) ==
    [revenue_contribution |-> ColMean(rows, "revenue_contribution"),
     demand_cv |-> ColMean(rows, "demand_cv")]

\* KMeans.fit (n_init = 10, seeded k-means++ starts, Lloyd's iterations): the
\* library is outside the repository, so its result is any configuration
\* Lloyd's algorithm can stop in: every row is labelled with its nearest
\* centre, a non-empty cluster's centre is the mean of its rows, and an empty
\* cluster's centre sits on a row (where sklearn relocates it).
KMeansFits(X, sc, k) ==
    LET n == Len(X)
        rowSet == {X[i] : i \in 1..n}
        centreSets(L) ==
            [j \in 1..k |->
                IF \E i \in 1..n : L[i] = j - 1
                THEN {Centroid(Members(X, L, j - 1))}
                ELSE rowSet]
        centreChoices(L) ==
            {C \in [1..k -> UNION {centreSets(L)[j] : j \in 1..k}] :
                \A j \in 1..k : C[j] \in centreSets(L)[j]}
    IN  UNION {{[labels_ |-> L, cluster_centers_ |-> C] :
                    C \in {C2 \in centreChoices(L) : NearestAll(X, C2, sc) = L}} :
               L \in Assignments(n, k)}

NoKMeans == [state |-> "None", cluster_centers_ |-> <<>>, labels_ |-> <<>>]
UnfittedKMeans == [state |-> "unfitted", cluster_centers_ |-> <<>>, labels_ |-> <<>>]
FittedKMeans(r) ==
    [state |-> "fitted", cluster_centers_ |-> r.cluster_centers_, labels_ |-> r.labels_]

\* silhouette_score and davies_bouldin_score both start with sklearn's
\* check_number_of_labels: 2 <= number of distinct labels <= n_samples - 1,
\* else ValueError
NumberOfLabelsValid(labels) ==
    LET n_labels == Cardinality({labels[i] : i \in 1..Len(labels)})
    IN  2 <= n_labels /\ n_labels <= Len(labels) - 1

Ended(op, outcome, at, result) ==
    [op |-> op, outcome |-> outcome, at |-> at, result |-> result]

NoCall == Ended("none", "none", "", <<>>)

\* fit(features)
Fit ==
    /\ feature_names' = FeatureColSeq
    /\ IF Len(features) = 0
       THEN \* StandardScaler.fit resets the scaler, then rejects the empty table
            /\ scaler' = UnfittedScaler
            /\ call' = Ended("fit", "ValueError", "scaler.fit_transform", <<>>)
            /\ UNCHANGED <<kmeans, fit_completed>>
       ELSE /\ scaler' = FittedScaler(features)
            /\ IF Len(features) < n_clusters
               THEN \* self.kmeans is the new, unfitted KMeans when its fit raises
                    /\ kmeans' = UnfittedKMeans
                    /\ call' = Ended("fit", "ValueError", "kmeans.fit", <<>>)
                    /\ UNCHANGED fit_completed
               ELSE \E r \in KMeansFits(features, FittedScaler(features), n_clusters) :
                        /\ kmeans' = FittedKMeans(r)
                        /\ IF NumberOfLabelsValid(r.labels_)
                           THEN /\ call' = Ended("fit", "returned", "", <<>>)
                                /\ fit_completed' = TRUE
                           ELSE /\ call' = Ended("fit", "ValueError", "silhouette_score", <<>>)
                                /\ UNCHANGED fit_completed
    /\ UNCHANGED <<n_clusters, features, clusters>>
    /\ UNCHANGED <<classifierVars, prepared>>

\* predict(features); the caller keeps the returned assignment
Predict ==
    /\ IF ~scaler.fitted
       THEN /\ call' = Ended("predict", "NotFittedError", "scaler.transform", <<>>)
            /\ UNCHANGED clusters
       ELSE IF Len(features) = 0
       THEN /\ call' = Ended("predict", "ValueError", "scaler.transform", <<>>)
            /\ UNCHANGED clusters
       ELSE IF kmeans.state = "None"
       THEN /\ call' = Ended("predict", "AttributeError", "kmeans.predict", <<>>)
            /\ UNCHANGED clusters
       ELSE IF kmeans.state = "unfitted"
       THEN /\ call' = Ended("predict", "NotFittedError", "kmeans.predict", <<>>)
            /\ UNCHANGED clusters
       ELSE LET res == NearestAll(features, kmeans.cluster_centers_, scaler)
            IN  /\ call' = Ended("predict", "returned", "", res)
                /\ clusters' = res
    /\ UNCHANGED <<n_clusters, scaler, kmeans, feature_names, features, fit_completed>>
    /\ UNCHANGED <<classifierVars, prepared>>

\* ascending sort of a sequence of numbers
RECURSIVE SortIdx(_, _)
SortIdx(s, idx) ==
    IF idx = {} THEN <<>>
    ELSE LET m == CHOOSE i \in idx : \A j \in idx :
                      ~FLt(s[j], s[i]) /\ (~FLt(s[i], s[j]) => i <= j)
         IN  <<s[m]>> \o SortIdx(s, idx \ {m})

SortFloats(s) == SortIdx(s, DOMAIN s)

\* pandas Series.quantile(pct / 100), linear interpolation between the two
\* nearest order statistics
Quantile(s, pct) ==
    LET sorted == SortFloats(s)
        t == pct * (Len(s) - 1)
        lo == t \div 100
        fr == t % 100
    IN  IF fr = 0 THEN sorted[lo + 1]
        ELSE FAdd(sorted[lo + 1],
                  FMul(Fin(fr, 100), FSub(sorted[lo + 2], sorted[lo + 1])))

\* the value tier as the specification words it: Budget below the 33rd
\* percentile, Mid-Tier otherwise
ValueLabelBelow(revenue, q33, q67) ==
    IF FGt(revenue, q67) THEN "Premium"
    ELSE IF FLt(revenue, q33) THEN "Budget"
    ELSE "Mid-Tier"

ValueLabel(revenue, q33, q67) ==
    IF FGt(revenue, q67) THEN "Premium"
    ELSE IF FGt(revenue, q33) THEN "Mid-Tier"
    ELSE "Budget"

StabilityLabel(demand_cv) ==
    IF FLt(demand_cv, Fin(1, 2)) THEN "Stable"
    ELSE IF FLt(demand_cv, Fin(1, 1)) THEN "Moderate"
    ELSE "Volatile"

\* cluster_stats: the column means of each cluster that has rows
ClusterMean(X, cl, c, col) == ColMean(Members(X, cl, c), col)

PresentClusters(cl) == {cl[i] : i \in 1..Len(cl)}

\* assign_business_labels(features, clusters): cluster_stats.loc[cluster]
\* raises KeyError for a cluster id in range(n_clusters) that has no row.
\* features carries the default positional index, which the returned Series
\* has too.
BusinessLabels(X, cl, k) ==
    IF \E c \in 0..(k - 1) : c \notin PresentClusters(cl)
    THEN [outcome |-> "KeyError", result |-> <<>>]
    ELSE LET revenue == [j \in 1..k |-> ClusterMean(X, cl, j - 1, "revenue_contribution")]
             q67 == Quantile(revenue, 67)
             q33 == Quantile(revenue, 33)
             labels == [j \in 1..k |->
                          ValueLabel(revenue[j], q33, q67) \o "-" \o
                          StabilityLabel(ClusterMean(X, cl, j - 1, "demand_cv"))]
         IN  [outcome |-> "returned",
              result |-> [i \in 1..Len(cl) |-> labels[cl[i] + 1]]]

AssignBusinessLabels ==
    /\ LET r == BusinessLabels(features, clusters, n_clusters)
       IN  call' = Ended("assign_business_labels", r.outcome,
                         IF r.outcome = "returned" THEN "" ELSE "cluster_stats.loc",
                         r.result)
    /\ UNCHANGED <<n_clusters, scaler, kmeans, feature_names, features, clusters,
                   fit_completed>>
    /\ UNCHANGED <<classifierVars, prepared>>

\* the largest m in lo..hi with P(m), where P holds on an initial part of lo..hi
RECURSIVE LargestBelow(_, _, _, _)
LargestBelow(lo, hi, n, d) ==
    IF lo = hi THEN lo
    ELSE LET mid == (lo + hi + 1) \div 2
         IN  IF (2 * mid - 1) * (2 * mid - 1) * d <= 4000000 * n
             THEN LargestBelow(mid, hi, n, d)
             ELSE LargestBelow(lo, mid - 1, n, d)

\* DataFrame.round(3): the nearest multiple of 0.001, a tie going to the even one
Round3(x) ==
    CASE x.k # "fin" -> x
      [] x.k = "fin" /\ ~x.r ->
            LET t == 1000 * x.n
                q == t \div x.d
                rem == t - q * x.d
                up == 2 * rem > x.d \/ (2 * rem = x.d /\ q % 2 = 1)
            IN  Fin(IF up THEN q + 1 ELSE q, 1000)
      [] x.k = "fin" /\ x.r -> Fin(LargestBelow(0, 4000, x.n, x.d), 1000)

\* 'std' of a group of numbers (sample standard deviation, ddof = 1)
PdStdF(s) ==
    IF Len(s) < 2 THEN NaN
    ELSE LET m == FDiv(FSum(s), Fin(Len(s), 1))
             v == FDiv(FSum([i \in 1..Len(s) |-> FSquare(FSub(s[i], m))]),
                       Fin(Len(s) - 1, 1))
         IN  Root(v.n, v.d)

\* one row of the profile, for a cluster that has rows
ProfileRow(X, cl, c, label) ==
    LET rows == Members(X, cl, c)
    IN  [cluster |-> c, business_label |-> label,
         revenue_contribution_mean |-> Round3(ColMean(rows, "revenue_contribution")),
         revenue_contribution_std |-> Round3(PdStdF(Column(rows, "revenue_contribution"))),
         revenue_contribution_count |-> Len(rows),
         demand_cv_mean |-> Round3(ColMean(rows, "demand_cv")),
         demand_cv_std |-> Round3(PdStdF(Column(rows, "demand_cv")))]

RECURSIVE SortedInts(_)
SortedInts(S) ==
    IF S = {} THEN <<>>
    ELSE LET m == CHOOSE x \in S : \A y \in S : x <= y
         IN  <<m>> \o SortedInts(S \ {m})

\* cluster_df.groupby(['cluster', 'business_label']).agg(...): one row per
\* (cluster, label) pair that occurs, in ascending order of the key; the label
\* is a function of the cluster
ProfileTable(X, cl, labels) ==
    LET ids == SortedInts(PresentClusters(cl))
        labelOf(c) == labels[CHOOSE i \in 1..Len(cl) : cl[i] = c]
    IN  [j \in 1..Len(ids) |-> ProfileRow(X, cl, ids[j], labelOf(ids[j]))]

\* profile_clusters(features, clusters)
ProfileClusters ==
    /\ LET r == BusinessLabels(features, clusters, n_clusters)
       IN  IF r.outcome = "returned"
           THEN call' = Ended("profile_clusters", "returned", "",
                              ProfileTable(features, clusters, r.result))
           ELSE call' = Ended("profile_clusters", r.outcome, "assign_business_labels", <<>>)
    /\ UNCHANGED <<n_clusters, scaler, kmeans, feature_names, features, clusters,
                   fit_completed>>
    /\ UNCHANGED <<classifierVars, prepared>>

\* the caller's tables in the life-cycle specification: up to MaxEntities rows
\* of two kinds, with two clusters asked for; before any predict the caller's
\* assignment deals the rows to the clusters in turn
LifeClusterCounts == {2}
LifeRows == {[revenue_contribution |-> Fin(0, 1), demand_cv |-> Fin(0, 1)],
             [revenue_contribution |-> Fin(2, 1), demand_cv |-> Fin(1, 1)]}
LifeBatches == BoundedSeq(LifeRows, MaxEntities)
InTurn(n, k) == [i \in 1..n |-> (i - 1) % k]

\* the caller obtains another feature table and an assignment for it; call
\* describes the last call made since
NewBatch ==
    /\ \E X \in LifeBatches :
          /\ features' = X
          /\ clusters' = InTurn(Len(X), n_clusters)
    /\ call' = NoCall
    /\ UNCHANGED <<n_clusters, scaler, kmeans, feature_names, fit_completed>>
    /\ UNCHANGED <<classifierVars, prepared>>

ClassifierIdle ==
    /\ df = NoTable
    /\ frame = <<>>
    /\ raised = "none"
    /\ pc = "idle"

\* InventorySegmentation.__init__
Constructed ==
    /\ scaler = UnfittedScaler
    /\ kmeans = NoKMeans
    /\ feature_names = <<>>
    /\ call = NoCall
    /\ fit_completed = FALSE
    /\ prepared = <<>>

\* the segmenter's life: any call, on any table the caller holds, in any order
InitSegment ==
    /\ ClassifierIdle
    /\ Constructed
    /\ n_clusters \in LifeClusterCounts
    /\ features \in LifeBatches
    /\ clusters = InTurn(Len(features), n_clusters)

NextSegment == Fit \/ Predict \/ AssignBusinessLabels \/ ProfileClusters \/ NewBatch

SpecSegment == InitSegment /\ [][NextSegment]_vars

\* assign_business_labels and profile_clusters as functions of their arguments
InitLabels ==
    /\ ClassifierIdle
    /\ Constructed
    /\ n_clusters \in ClusterCounts
    /\ features \in Batches
    /\ clusters \in Assignments(Len(features), n_clusters)

NextLabels == AssignBusinessLabels \/ ProfileClusters

SpecLabels == InitLabels /\ [][NextLabels]_vars

SegmenterIdle ==
    /\ n_clusters = 0
    /\ scaler = UnfittedScaler
    /\ kmeans = NoKMeans
    /\ feature_names = <<>>
    /\ features = <<>>
    /\ clusters = <<>>
    /\ call = NoCall
    /\ fit_completed = FALSE
    /\ prepared = <<>>

----------------------------------------------------------------------------
(* kmeans_segmenter.py: feature engineering *)

\* bounds of the sales history handed to prepare_features: item 1 has up to
\* MaxObs rows, item 2 up to MaxShortObs; the last rows of an item, up to
\* MaxNextMonth of them, are dated in the following month
MaxObs == 10
MaxShortObs == 1
MaxNextMonth == 1
SalesGrid == {0, 1}
UnitRevenue == 3
SuppliedReliability == Fin(9, 10)

HistoryRows(item, sales, tail) ==
    [i \in 1..Len(sales) |->
        [item_id |-> item, store_id |-> 1, sales |-> sales[i],
         revenue |-> UnitRevenue * sales[i],
         month |-> IF i > Len(sales) - tail THEN 2 ELSE 1,
         supplier_reliability |-> SuppliedReliability]]

Histories ==
    {HistoryRows(1, s1, t1) \o HistoryRows(2, s2, 0) :
        s1 \in BoundedSeq(SalesGrid, MaxObs),
        t1 \in 0..MaxNextMonth,
        s2 \in BoundedSeq(SalesGrid, MaxShortObs)}

\* the groups of df.groupby(['item_id', 'store_id']), in sorted key order
ItemKeys(rows) == {<<rows[j].item_id, rows[j].store_id>> : j \in 1..Len(rows)}

GroupRows(rows, key) ==
    LET hit(r) == r.item_id = key[1] /\ r.store_id = key[2]
    IN  SelectSeq(rows, hit)

SalesOf(rows) == [j \in 1..Len(rows) |-> rows[j].sales]

\* fillna(0).replace([np.inf, -np.inf], 0)
Clean(x) == IF x.k \in {"nan", "inf"} THEN Zero ELSE x

\* features['revenue_contribution']
RevenueContribution(g) == Fin(SeqSum([j \in 1..Len(g) |-> g[j].revenue]), 1)

\* features['demand_cv']: std / mean over all of the group's rows
DemandCV(g) == Clean(FDiv(PdStd(SalesOf(g)), PdMean(SalesOf(g))))

\* _calculate_seasonality_strength: the std of the group's monthly means over
\* its overall mean, nan filled with 0, clipped to [0, 1]
MonthlyMeans(g) ==
    LET months == SortedInts({g[j].month : j \in 1..Len(g)})
        inMonth(m) == LET hit(r) == r.month = m IN SelectSeq(g, hit)
    IN  [j \in 1..Len(months) |-> PdMean(SalesOf(inMonth(months[j])))]

Clip01(x) ==
    IF FLt(x, Zero) THEN Zero
    ELSE IF FGt(x, Fin(1, 1)) THEN Fin(1, 1)
    ELSE x

SeasonalityStrength(g) ==
    Clip01(FillNa0(FDiv(PdStdF(MonthlyMeans(g)), PdMean(SalesOf(g)))))

\* scipy.stats.linregress(np.arange(n), y).slope for n >= 2
LinregressSlope(y) ==
    LET n == Len(y)
        sx == SeqSum([i \in 1..n |-> i - 1])
        sxx == SeqSum([i \in 1..n |-> (i - 1) * (i - 1)])
        sy == SeqSum(y)
        sxy == SeqSum([i \in 1..n |-> (i - 1) * y[i]])
    IN  Fin(n * sxy - sx * sy, n * sxx - sx * sx)

MIN_OBSERVATIONS == 10

calculate_slope(g) ==
    IF Len(g) < MIN_OBSERVATIONS THEN Zero ELSE LinregressSlope(SalesOf(g))

FAbs(x) == IF x.k = "fin" /\ x.n < 0 THEN [x EXCEPT !.n = -x.n] ELSE x

\* slopes.abs().max()
MaxAbs(s) ==
    LET F[i \in 1..Len(s)] ==
            IF i = 1 THEN FAbs(s[1])
            ELSE IF FGt(FAbs(s[i]), F[i - 1]) THEN FAbs(s[i]) ELSE F[i - 1]
    IN  F[Len(s)]

\* slope / (max + 1e-10): exactly 0 for a zero slope; otherwise the value
\* "nearly" n/d = slope / max, smaller in magnitude by a relative 1e-10 at most
OverMaxPlusEps(slope, max) ==
    IF slope = Zero THEN Zero
    ELSE [FDiv(slope, max) EXCEPT !.k = "nearly"]

\* _calculate_trend_slope: one normalised slope per group, in key order
TrendSlopes(rows) ==
    LET ks == SortedKeys(ItemKeys(rows))
        slopes == [j \in 1..Len(ks) |-> calculate_slope(GroupRows(rows, ks[j]))]
    IN  [j \in 1..Len(ks) |-> FillNa0(OverMaxPlusEps(slopes[j], MaxAbs(slopes)))]

\* _calculate_stockout_frequency: (SeriesGroupBy == 0) is Python's default
\* comparison of two objects, the bool False, and False has no groupby
\* attribute: the method raises AttributeError on every table
GroupByEqualsZero(rows) == FALSE

StockoutFrequency(rows) ==
    IF GroupByEqualsZero(rows) \in BOOLEAN
    THEN [outcome |-> "AttributeError", result |-> <<>>]
    ELSE [outcome |-> "returned", result |-> <<>>]

\* np.random.uniform(0.7, 1.0): the values the draw may give
ReliabilityDraws == {Fin(7, 10), Fin(17, 20)}

\* the feature table of prepare_features, one row per group in key order,
\* given the stockout frequencies and the drawn reliabilities
FeatureTable(rows, stockout, drawn) ==
    LET ks == SortedKeys(ItemKeys(rows))
        trend == TrendSlopes(rows)
    IN  [j \in 1..Len(ks) |->
            LET g == GroupRows(rows, ks[j])
            IN  [item_id |-> ks[j][1], store_id |-> ks[j][2],
                 revenue_contribution |-> Clean(RevenueContribution(g)),
                 demand_cv |-> Clean(DemandCV(g)),
                 seasonality_strength |-> Clean(SeasonalityStrength(g)),
                 trend_slope |-> Clean(trend[j]),
                 stockout_frequency |-> Clean(stockout[j]),
                 supplier_reliability |-> Clean(drawn[j])]]

\* prepare_features(df): the features are computed in the order of the source;
\* the exception of _calculate_stockout_frequency leaves the method before the
\* reliabilities are drawn
LastTwo(s) == IF Len(s) > 2 THEN Tail(s) ELSE s

PrepareFeatures ==
    /\ LET stock == StockoutFrequency(df.rows)
           n == Cardinality(ItemKeys(df.rows))
       IN  IF stock.outcome # "returned"
           THEN call' = Ended("prepare_features", stock.outcome,
                              "_calculate_stockout_frequency", <<>>)
           ELSE \E drawn \in [1..n -> ReliabilityDraws] :
                    call' = Ended("prepare_features", "returned", "",
                                  FeatureTable(df.rows, stock.result, drawn))
    /\ prepared' = LastTwo(Append(prepared, call'))
    /\ UNCHANGED <<df, frame, raised, pc>>
    /\ UNCHANGED <<segmenterVars, features, clusters, fit_completed>>

\* _calculate_trend_slope(df), called on its own
CalculateTrendSlope ==
    /\ call' = Ended("_calculate_trend_slope", "returned", "", TrendSlopes(df.rows))
    /\ UNCHANGED <<df, frame, raised, pc, prepared>>
    /\ UNCHANGED <<segmenterVars, features, clusters, fit_completed>>

\* _calculate_seasonality_strength(df), called on its own
CalculateSeasonalityStrength ==
    /\ LET ks == SortedKeys(ItemKeys(df.rows))
       IN  call' = Ended("_calculate_seasonality_strength", "returned", "",
                         [j \in 1..Len(ks) |->
                             SeasonalityStrength(GroupRows(df.rows, ks[j]))])
    /\ UNCHANGED <<df, frame, raised, pc, prepared>>
    /\ UNCHANGED <<segmenterVars, features, clusters, fit_completed>>

\* _calculate_stockout_frequency(df), called on its own
CalculateStockoutFrequency ==
    /\ LET stock == StockoutFrequency(df.rows)
       IN  call' = Ended("_calculate_stockout_frequency", stock.outcome,
                         IF stock.outcome = "returned" THEN "" ELSE "groupby",
                         stock.result)
    /\ UNCHANGED <<df, frame, raised, pc, prepared>>
    /\ UNCHANGED <<segmenterVars, features, clusters, fit_completed>>

SegmentColumns == {"item_id", "store_id", "sales", "revenue", "date"}

InitPrepare ==
    /\ df \in {[columns |-> SegmentColumns, rows |-> h] : h \in Histories \ {<<>>}}
    /\ frame = <<>>
    /\ raised = "none"
    /\ pc = "idle"
    /\ n_clusters \in LifeClusterCounts
    /\ Constructed
    /\ features = <<>>
    /\ clusters = <<>>

NextPrepare ==
    \/ PrepareFeatures
    \/ CalculateTrendSlope
    \/ CalculateSeasonalityStrength
    \/ CalculateStockoutFrequency

SpecPrepare == InitPrepare /\ [][NextPrepare]_vars

\* calculate_features then classify_patterns on a loaded table
InitFeatures ==
    /\ df \in Tables
    /\ frame = <<>>
    /\ raised = "none"
    /\ pc = "loaded"
    /\ SegmenterIdle

NextFeatures == CalculateFeatures \/ ClassifyPatterns

SpecFeatures == InitFeatures /\ [][NextFeatures]_vars

\* classify_patterns on a caller-supplied table of (ADI, CV2) rows
MaxFrameRows == 2
ADIGrid == {Fin(n, 100) : n \in {0, 100, 131, 132, 133, 200}}
CV2Grid == {Fin(n, 100) : n \in {0, 10, 48, 49, 50, 90}}
SuppliedRows == [store_id : StoreIds, item_id : ItemIds, ADI : ADIGrid, CV2 : CV2Grid]

InitClassify ==
    /\ df = NoTable
    /\ frame \in BoundedSeq(SuppliedRows, MaxFrameRows) \ {<<>>}
    /\ raised = "none"
    /\ pc = "features"
    /\ SegmenterIdle

NextClassify == ClassifyPatterns

SpecClassify == InitClassify /\ [][NextClassify]_vars

----------------------------------------------------------------------------
(* Claims about the demand classifier *)

Returned == pc \in {"features", "classified"}

\* C1: classify_patterns labels every finite non-negative (ADI, CV2) row by the
\* table: Smooth when ADI < 1.32 and CV2 < 0.49, Erratic when ADI < 1.32 and
\* CV2 >= 0.49, Intermittent when ADI >= 1.32 and CV2 < 0.49, Lumpy otherwise;
\* a value equal to a threshold takes the "not below" branch, so
\* (1.32, 0.1) is Intermittent.
C1_ClassifyTable ==
    pc = "classified" =>
        \A j \in 1..Len(frame) :
            LET a == frame[j].ADI
                c == frame[j].CV2
                adiBelow == 100 * a.n < 132 * a.d
                cv2Below == 100 * c.n < 49 * c.d
                p == frame[j].demand_pattern
            IN  /\ (adiBelow /\ cv2Below) => p = "Smooth"
                /\ (adiBelow /\ ~cv2Below) => p = "Erratic"
                /\ (~adiBelow /\ cv2Below) => p = "Intermittent"
                /\ (~adiBelow /\ ~cv2Below) => p = "Lumpy"
                /\ (a = Fin(132, 100) /\ c = Fin(10, 100)) => p = "Intermittent"

C1_Witness ==
    /\ pc = "classified"
    /\ \E j \in 1..Len(frame) :
          /\ frame[j].ADI = Fin(132, 100)
          /\ frame[j].CV2 = Fin(10, 100)
          /\ frame[j].demand_pattern = "Intermittent"
    /\ \E j \in 1..Len(frame) :
          /\ frame[j].CV2 = Fin(49, 100)
          /\ frame[j].demand_pattern \in {"Erratic", "Lumpy"}

\* C2: every row calculate_features returns, an all-zero entity's included,
\* has a finite ADI = num_observations / non_zero_obs with ADI >= 1, and
\* non_zero_obs <= num_observations.
C2_ADIDefined ==
    Returned =>
        \A j \in 1..Len(frame) :
            LET row == frame[j]
            IN  /\ IsFinite(row.ADI)
                /\ row.ADI.n >= row.ADI.d
                /\ row.non_zero_obs <= row.num_observations
                /\ row.non_zero_obs > 0 =>
                       row.ADI.n * row.non_zero_obs = row.num_observations * row.ADI.d

\* C3: every row calculate_features returns has CV2 >= 0, a number and not
\* nan, and CV2 = 0 when the entity has at most one non-zero observation.
C3_CV2NonNegative ==
    Returned =>
        \A j \in 1..Len(frame) :
            LET row == frame[j]
            IN  /\ IsFinite(row.CV2)
                /\ row.CV2.n >= 0
                /\ row.non_zero_obs <= 1 => row.CV2 = Zero

C3_Witness ==
    /\ pc = "features"
    /\ \E j \in 1..Len(frame) : frame[j].non_zero_obs = 0 /\ frame[j].CV2 = Zero
    /\ \E j \in 1..Len(frame) : frame[j].non_zero_obs = 1 /\ frame[j].CV2 = Zero

\* C4: calculate_features on a table with no rows, or with a required column
\* absent, raises and returns no statistics table.
C4_FailsFast ==
    (pc # "loaded" /\ (df.rows = <<>> \/ ~(RequiredColumns \subseteq df.columns))) =>
        (pc = "failed" /\ raised # "none")

----------------------------------------------------------------------------
(* Claims about the segmenter *)

PostFitOps == {"predict", "assign_business_labels", "profile_clusters"}

\* C5: predict, assign_business_labels and profile_clusters succeed only when
\* a fit has completed earlier (with no prior fit each raises instead of
\* returning), and once a fit has completed the segmenter stays fitted.
C5_FitBeforeUse ==
    /\ (call.op \in PostFitOps /\ call.outcome = "returned") => fit_completed
    /\ fit_completed => (scaler.fitted /\ kmeans.state = "fitted")

\* C6: the parameters a fit produced (the scaler's mean and scale, the
\* centroids) are never changed afterwards, whatever is called next, another
\* fit on a different table included.
C6_ParamsNeverMutated ==
    [][(scaler.fitted /\ kmeans.state = "fitted") =>
          (scaler' = scaler /\ kmeans' = kmeans)]_vars

Tiers == {"Premium", "Mid-Tier", "Budget"}
Stabilities == {"Stable", "Moderate", "Volatile"}
TierOf(label) == CHOOSE t \in Tiers : \E s \in Stabilities : label = t \o "-" \o s

LabelsReturned == call.op = "assign_business_labels" /\ call.outcome = "returned"

RevenueMeans ==
    [j \in 1..n_clusters |-> ClusterMean(features, clusters, j - 1, "revenue_contribution")]

\* C7 (as claimed): a cluster is Premium if its mean revenue is above the 67th
\* percentile of the cluster means, Budget if it is below the 33rd percentile,
\* Mid-Tier otherwise; a mean equal to the 33rd percentile is Mid-Tier.
C7_TierAsClaimed ==
    LabelsReturned =>
        \A i \in 1..Len(clusters) :
            LET m == RevenueMeans[clusters[i] + 1]
                q33 == Quantile(RevenueMeans, 33)
                q67 == Quantile(RevenueMeans, 67)
                tier == TierOf(call.result[i])
            IN  /\ FGt(m, q67) => tier = "Premium"
                /\ (~FGt(m, q67) /\ FLt(m, q33)) => tier = "Budget"
                /\ (~FGt(m, q67) /\ ~FLt(m, q33)) => tier = "Mid-Tier"

\* C7 (amended): a cluster is Premium if its mean revenue is above the 67th
\* percentile of the cluster means, otherwise Mid-Tier if it is above the 33rd
\* percentile, otherwise Budget; a mean equal to the 33rd percentile is Budget.
C7_TierOfCode ==
    LabelsReturned =>
        \A i \in 1..Len(clusters) :
            LET m == RevenueMeans[clusters[i] + 1]
                q33 == Quantile(RevenueMeans, 33)
                q67 == Quantile(RevenueMeans, 67)
                tier == TierOf(call.result[i])
            IN  /\ FGt(m, q67) => tier = "Premium"
                /\ (~FGt(m, q67) /\ FGt(m, q33)) => tier = "Mid-Tier"
                /\ (~FGt(m, q67) /\ ~FGt(m, q33)) => tier = "Budget"
                /\ (~FGt(m, q67) /\ m = q33) => tier = "Budget"

C7_Witness ==
    /\ LabelsReturned
    /\ \E i \in 1..Len(clusters) :
          /\ RevenueMeans[clusters[i] + 1] = Quantile(RevenueMeans, 33)
          /\ TierOf(call.result[i]) = "Budget"
    /\ \E i \in 1..Len(clusters) : TierOf(call.result[i]) = "Premium"

\* C8: profile_clusters completes for any assignment of the rows to cluster
\* ids 0..k-1, one that leaves a cluster empty included, and returns one row
\* per cluster in ascending cluster-id order whose counts sum to the number of
\* rows.
C8_ProfileTotal ==
    call.op = "profile_clusters" =>
        /\ call.outcome = "returned"
        /\ \A a, b \in 1..Len(call.result) :
              a < b => call.result[a].cluster < call.result[b].cluster
        /\ SeqSum([j \in 1..Len(call.result) |->
                      call.result[j].revenue_contribution_count]) = Len(features)

NumberLike(x) == x.k \in {"fin", "nearly"}

\* C9: prepare_features returns, for every table, feature vectors whose fields
\* are all finite numbers, with trend_slope exactly 0 for every entity that
\* has fewer than 10 observations.
C9_FiniteFeatures ==
    call.op = "prepare_features" =>
        /\ call.outcome = "returned"
        /\ \A j \in 1..Len(call.result) :
              LET v == call.result[j]
                  g == GroupRows(df.rows, <<v.item_id, v.store_id>>)
              IN  /\ \A c \in {"revenue_contribution", "demand_cv",
                              "seasonality_strength", "trend_slope",
                              "stockout_frequency", "supplier_reliability"} :
                         NumberLike(v[c])
                  /\ Len(g) < 10 => v.trend_slope = Zero

\* C10: prepare_features is a function of its input: two calls on the same
\* table return the same feature vectors, and every supplier_reliability is
\* the value the caller supplied for the entity.
C10_PureFunction ==
    /\ \A i \in 1..Len(prepared) :
          /\ prepared[i].outcome = "returned"
          /\ \A j \in 1..Len(prepared[i].result) :
                LET v == prepared[i].result[j]
                    g == GroupRows(df.rows, <<v.item_id, v.store_id>>)
                IN  v.supplier_reliability = g[1].supplier_reliability
    /\ Len(prepared) = 2 => prepared[1].result = prepared[2].result

\* the clustering of the last fit completed: the call got past the scaler and
\* past KMeans.fit
ClusteringCompleted ==
    call.op = "fit" /\ call.at \notin {"scaler.fit_transform", "kmeans.fit"}

\* C11: the quality diagnostics of fit never gate it: whenever the clustering
\* itself completes, a table whose rows all fall in one distinct cluster
\* included, fit returns normally and leaves the segmenter fitted, with the
\* assignment KMeans produced.
C11_DiagnosticsNeverGate ==
    ClusteringCompleted =>
        /\ call.outcome = "returned"
        /\ fit_completed
        /\ scaler.fitted /\ kmeans.state = "fitted"
        /\ kmeans.labels_ = NearestAll(features, kmeans.cluster_centers_, scaler)

ZeroSalesCount(sales) == Cardinality({j \in 1..Len(sales) : sales[j] = 0})

\* C12: _calculate_stockout_frequency returns, for every entity, the number of
\* its observations with zero sales divided by the number of its observations,
\* a value in [0, 1].
C12_StockoutFraction ==
    call.op = "_calculate_stockout_frequency" =>
        /\ call.outcome = "returned"
        /\ LET ks == SortedKeys(ItemKeys(df.rows))
           IN  /\ Len(call.result) = Len(ks)
               /\ \A j \in 1..Len(ks) :
                     LET sales == SalesOf(GroupRows(df.rows, ks[j]))
                         f == call.result[j]
                     IN  /\ f = Fin(ZeroSalesCount(sales), Len(sales))
                         /\ ~FLt(f, Zero) /\ ~FGt(f, Fin(1, 1))
====
